---- MODULE Spec2Model ----
(***************************************************************************)
(* A model of merge.py: the structural merge engine (merge_data), the XML  *)
(* tree merge engine (merge_xml_trees) and the folder walk (merge_folders, *)
(* merge_files, load_file, save_file).                                     *)
(*                                                                         *)
(* Python objects live on a heap of cells, so that in-place mutation and   *)
(* aliasing (a[key] = value, elem1.append(child2)) are modelled as the     *)
(* interpreter performs them.  Strings are sequences of one-character      *)
(* strings, so that json.dumps is computed character by character.         *)
(***************************************************************************)
EXTENDS Integers, Sequences, FiniteSets, TLC

VARIABLES
    heap,     \* the Python heap of dict and list objects: Seq(Cell)
    a,        \* merge_data's first argument (destination), a slot
    b,        \* merge_data's second argument (source), a slot
    ret,      \* the value returned by the last merge_data call, a slot
    phase,    \* "idle", "loaded", "merged", "merged2", "xloaded", "xmerged"
    h0,       \* the heap as it was when the arguments were constructed
    prev,     \* the document returned by the first merge_data call
    xheap,    \* the heap of xml.etree Element objects: Seq(Element)
    tree1,    \* root Element of merge_xml_trees' first argument (destination)
    tree2,    \* root Element of merge_xml_trees' second argument (source)
    xh0,      \* the element heap as it was when the trees were parsed
    xlog,     \* one record per iteration of merge_elements' outer loop
    srcFS,    \* folder_a: file name -> content
    dstFS,    \* folder_b: file name -> content, or absent
    dst0,     \* folder_b as it was before the run
    walk,     \* the files os.walk has still to yield, in its order
    roots,    \* whether folder_a and folder_b exist
    pc,       \* "idle", "start", "walking", "done", "crashed"
    out,      \* the lines printed so far
    called    \* the files merge_files was called for

vars == <<heap, a, b, ret, phase, h0, prev, xheap, tree1, tree2, xh0, xlog,
          srcFS, dstFS, dst0, walk, roots, pc, out, called>>

dataVars == <<heap, a, b, ret, h0, prev>>
xmlVars == <<xheap, tree1, tree2, xh0, xlog>>
folderVars == <<srcFS, dstFS, dst0, walk, roots, pc, out, called>>

(***************************************************************************)
(* Bounds of the model.                                                    *)
(***************************************************************************)
MaxInt == 2      \* integer scalars are 1..MaxInt
MaxLen == 2      \* longest top-level sequence handed to merge_data
MaxKids == 2     \* most children of a root element handed to merge_xml_trees
MaxFiles == 2    \* most files under folder_a

(***************************************************************************)
(* Strings.  CharOrder lists the characters the model uses in ascending    *)
(* code point order; Python compares strings by code point.                *)
(***************************************************************************)
CharOrder ==
    <<" ", "\"", ",", "0", "1", "2", "3", "4", "5", "6", "7", "8", "9", ":",
      "[", "\\", "]", "a", "b", "e", "l", "n", "r", "t", "u", "x", "y", "z",
      "{", "}">>

CharCode(c) == CHOOSE i \in 1..Len(CharOrder) : CharOrder[i] = c

RECURSIVE StrLess(_, _)
StrLess(x, y) ==
    IF y = <<>> THEN FALSE
    ELSE IF x = <<>> THEN TRUE
    ELSE IF Head(x) = Head(y) THEN StrLess(Tail(x), Tail(y))
    ELSE CharCode(Head(x)) < CharCode(Head(y))

RECURSIVE Concat(_)
Concat(ss) == IF ss = <<>> THEN <<>> ELSE Head(ss) \o Concat(Tail(ss))

RECURSIVE Join(_, _)
Join(sep, ss) ==
    IF ss = <<>> THEN <<>>
    ELSE IF Len(ss) = 1 THEN ss[1]
    ELSE ss[1] \o sep \o Join(sep, Tail(ss))

(***************************************************************************)
(* Documents: what a JSON / YAML / properties file denotes.  One record    *)
(* shape for every variant: t is the variant, n the number of an int or    *)
(* bool, s the characters of a str, keys and items the entries of a dict   *)
(* (in insertion order) or the elements of a list.                         *)
(***************************************************************************)
IntD(i) == [t |-> "int", n |-> i, s |-> <<>>, keys |-> <<>>, items |-> <<>>]
StrD(cs) == [t |-> "str", n |-> 0, s |-> cs, keys |-> <<>>, items |-> <<>>]
BoolD(i) == [t |-> "bool", n |-> i, s |-> <<>>, keys |-> <<>>, items |-> <<>>]
NoneD == [t |-> "null", n |-> 0, s |-> <<>>, keys |-> <<>>, items |-> <<>>]
ListD(vs) == [t |-> "list", n |-> 0, s |-> <<>>, keys |-> <<>>, items |-> vs]
DictD(ks, vs) == [t |-> "dict", n |-> 0, s |-> <<>>, keys |-> ks, items |-> vs]

IsStructD(v) == v.t \in {"dict", "list"}

(***************************************************************************)
(* The heap.  A slot is what a Python variable, dict entry or list element *)
(* holds: a scalar, or a pointer to a dict or list cell.                   *)
(***************************************************************************)
Ptr(p) == [t |-> "ptr", n |-> p, s |-> <<>>]
Scalar(v) == [t |-> v.t, n |-> v.n, s |-> v.s]
NoneV == [t |-> "null", n |-> 0, s |-> <<>>]

IsDict(h, x) == x.t = "ptr" /\ h[x.n].t = "dict"
IsList(h, x) == x.t = "ptr" /\ h[x.n].t = "list"

\* json.load / yaml.safe_load build fresh objects for a document.
RECURSIVE Alloc(_, _)
RECURSIVE AllocSeq(_, _)
AllocSeq(h, vs) ==
    IF vs = <<>> THEN [h |-> h, rs |-> <<>>]
    ELSE LET first == Alloc(h, Head(vs))
             rest == AllocSeq(first.h, Tail(vs))
         IN [h |-> rest.h, rs |-> <<first.r>> \o rest.rs]

Alloc(h, v) ==
    IF IsStructD(v)
    THEN LET kids == AllocSeq(h, v.items)
             cell == [t |-> v.t, keys |-> v.keys, items |-> kids.rs]
         IN [h |-> Append(kids.h, cell), r |-> Ptr(Len(kids.h) + 1)]
    ELSE [h |-> h, r |-> Scalar(v)]

\* The document an object graph denotes.
RECURSIVE Val(_, _)
Val(h, x) ==
    IF x.t = "ptr"
    THEN [t |-> h[x.n].t, n |-> 0, s |-> <<>>, keys |-> h[x.n].keys,
          items |-> [i \in 1..Len(h[x.n].items) |-> Val(h, h[x.n].items[i])]]
    ELSE [t |-> x.t, n |-> x.n, s |-> x.s, keys |-> <<>>, items |-> <<>>]

(***************************************************************************)
(* json.dumps(item, sort_keys=True): default separators ", " and ": ",     *)
(* keys in ascending order, strings quoted with " and \ escaped.           *)
(***************************************************************************)
Digits == <<"0", "1", "2", "3", "4", "5", "6", "7", "8", "9">>

RECURSIVE IntChars(_)
IntChars(i) ==
    IF i < 10 THEN <<Digits[i + 1]>>
    ELSE IntChars(i \div 10) \o <<Digits[(i % 10) + 1]>>

EscapeChar(c) ==
    IF c = "\"" THEN <<"\\", "\"">>
    ELSE IF c = "\\" THEN <<"\\", "\\">>
    ELSE <<c>>

JsonString(cs) ==
    <<"\"">> \o Concat([i \in 1..Len(cs) |-> EscapeChar(cs[i])]) \o <<"\"">>

\* The positions of a dict's entries, ordered by key (sort_keys=True).
RECURSIVE InsertSorted(_, _, _)
InsertSorted(keys, order, i) ==
    IF order = <<>> THEN <<i>>
    ELSE IF StrLess(keys[i], keys[Head(order)]) THEN <<i>> \o order
    ELSE <<Head(order)>> \o InsertSorted(keys, Tail(order), i)

RECURSIVE SortedOrder(_, _)
SortedOrder(keys, n) ==
    IF n = 0 THEN <<>> ELSE InsertSorted(keys, SortedOrder(keys, n - 1), n)

RECURSIVE JsonDumps(_)
JsonDumps(v) ==
    CASE v.t = "int" -> IntChars(v.n)
      [] v.t = "bool" -> IF v.n = 1 THEN <<"t", "r", "u", "e">>
                         ELSE <<"f", "a", "l", "s", "e">>
      [] v.t = "null" -> <<"n", "u", "l", "l">>
      [] v.t = "str" -> JsonString(v.s)
      [] v.t = "list" ->
            <<"[">> \o Join(<<",", " ">>,
                           [i \in 1..Len(v.items) |-> JsonDumps(v.items[i])])
                    \o <<"]">>
      [] v.t = "dict" ->
            LET order == SortedOrder(v.keys, Len(v.keys))
            IN <<"{">> \o Join(<<",", " ">>,
                              [j \in 1..Len(order) |->
                                  JsonString(v.keys[order[j]]) \o <<":", " ">>
                                      \o JsonDumps(v.items[order[j]])])
                       \o <<"}">>

(***************************************************************************)
(* merge_data                                                              *)
(***************************************************************************)
\* Python's == on the scalars a set compares: True == 1, a str equals only
\* a str with the same characters, None only None.
PyEq(x, y) ==
    \/ x.t \in {"int", "bool"} /\ y.t \in {"int", "bool"} /\ x.n = y.n
    \/ x.t = "str" /\ y.t = "str" /\ x.s = y.s
    \/ x.t = "null" /\ y.t = "null"

\* line 55: the serialized text of a dict or list, the item itself otherwise.
Hashable(h, item) ==
    IF item.t = "ptr"
    THEN [t |-> "str", n |-> 0, s |-> JsonDumps(Val(h, item))]
    ELSE item

\* A loop that never finds its item in seen (no deduplication).
NotSeenAlways(seen, hashable) == TRUE

\* line 56: hashable not in seen
NotSeen(seen, hashable) == \A x \in seen : ~PyEq(x, hashable)

\* key in a
KeyIn(h, d, key) == \E i \in 1..Len(h[d.n].keys) : h[d.n].keys[i] = key

KeyIndex(h, d, key) == CHOOSE i \in 1..Len(h[d.n].keys) : h[d.n].keys[i] = key

\* a[key]
DictGet(h, d, key) == h[d.n].items[KeyIndex(h, d, key)]

\* a[key] = x: an existing key keeps its position, a new one goes last.
DictSet(h, d, key, x) ==
    IF KeyIn(h, d, key)
    THEN [h EXCEPT ![d.n].items[KeyIndex(h, d, key)] = x]
    ELSE [h EXCEPT ![d.n].keys = Append(@, key), ![d.n].items = Append(@, x)]

\* lines 52-58: the deduplicating loop over combined.
RECURSIVE Dedup(_, _, _, _)
Dedup(h, combined, seen, result) ==
    IF combined = <<>> THEN result
    ELSE LET item == Head(combined)
             hashable == Hashable(h, item)
         IN IF NotSeen(seen, hashable)
            THEN Dedup(h, Tail(combined), seen \cup {hashable},
                       Append(result, item))
            ELSE Dedup(h, Tail(combined), seen, result)

\* lines 50-59: the list branch returns a new list object.
MergeLists(h, x, y) ==
    LET combined == h[x.n].items \o h[y.n].items
        result == Dedup(h, combined, {}, <<>>)
    IN [h |-> Append(h, [t |-> "list", keys |-> <<>>, items |-> result]),
        r |-> Ptr(Len(h) + 1)]

\* An else branch that keeps the destination.
MergeOtherKeep(h, x, y) == [h |-> h, r |-> x]

\* lines 60-61: the else branch.
MergeOther(h, x, y) == [h |-> h, r |-> y]

RECURSIVE MergeData(_, _, _)
RECURSIVE MergeDicts(_, _, _, _)

\* A loop body that overwrites without recursing (a shallow update).
MergeKeyShallow(h, x, key, value) == DictSet(h, x, key, value)

\* lines 45-48: the body of the loop over b.items().
MergeKey(h, x, key, value) ==
    IF KeyIn(h, x, key)
    THEN LET m == MergeData(h, DictGet(h, x, key), value)
         IN DictSet(m.h, x, key, m.r)
    ELSE DictSet(h, x, key, value)

\* lines 44-49: the loop reads entry i of b when it gets to it.
MergeDicts(h, x, y, i) ==
    IF i > Len(h[y.n].keys) THEN h
    ELSE MergeDicts(MergeKey(h, x, h[y.n].keys[i], h[y.n].items[i]),
                    x, y, i + 1)

MergeData(h, x, y) ==
    IF IsDict(h, x) /\ IsDict(h, y) THEN [h |-> MergeDicts(h, x, y, 1), r |-> x]
    ELSE IF IsList(h, x) /\ IsList(h, y) THEN MergeLists(h, x, y)
    ELSE MergeOther(h, x, y)

(***************************************************************************)
(* merge_xml_trees.  An Element has a tag, an attribute mapping (a set of  *)
(* <<name, value>> pairs) and a list of child Elements (heap addresses).   *)
(***************************************************************************)
Elem(tag, attrib, kids) == [tag |-> tag, attrib |-> attrib, kids |-> kids]

\* ET.parse builds fresh Element objects for a document.
RECURSIVE XAlloc(_, _)
RECURSIVE XAllocSeq(_, _)
XAllocSeq(h, ts) ==
    IF ts = <<>> THEN [h |-> h, rs |-> <<>>]
    ELSE LET first == XAlloc(h, Head(ts))
             rest == XAllocSeq(first.h, Tail(ts))
         IN [h |-> rest.h, rs |-> <<first.r>> \o rest.rs]

XAlloc(h, e) ==
    LET kids == XAllocSeq(h, e.kids)
    IN [h |-> Append(kids.h, Elem(e.tag, e.attrib, kids.rs)),
        r |-> Len(kids.h) + 1]

\* The document an Element denotes.
RECURSIVE XVal(_, _)
XVal(h, p) ==
    Elem(h[p].tag, h[p].attrib, [i \in 1..Len(h[p].kids) |-> XVal(h, h[p].kids[i])])

\* line 71
SameNode(h, child1, child2) ==
    h[child1].tag = h[child2].tag /\ h[child1].attrib = h[child2].attrib

\* An inner loop without its break: the last matching child wins.
LastMatch(h, elem1, child2) ==
    LET hits == {i \in 1..Len(h[elem1].kids) : SameNode(h, h[elem1].kids[i], child2)}
    IN IF hits = {} THEN 0 ELSE CHOOSE i \in hits : \A j \in hits : i >= j

\* lines 70-74: the position in elem1 of the child the inner loop breaks at,
\* 0 when the loop runs to its end.
FirstMatch(h, elem1, child2) ==
    LET hits == {i \in 1..Len(h[elem1].kids) : SameNode(h, h[elem1].kids[i], child2)}
    IN IF hits = {} THEN 0 ELSE CHOOSE i \in hits : \A j \in hits : i <= j

\* line 76
AppendChild(h, elem1, child2) == [h EXCEPT ![elem1].kids = Append(@, child2)]

\* What one iteration of the outer loop did, as seen from outside: elem1's
\* children and their subtrees before and after it.
Observe(h, hAfter, elem1, child2, into) ==
    [elem1 |-> elem1, child2 |-> child2, into |-> into,
     same |-> [i \in 1..Len(h[elem1].kids) |-> SameNode(h, h[elem1].kids[i], child2)],
     kidsBefore |-> h[elem1].kids,
     kidsAfter |-> hAfter[elem1].kids,
     subBefore |-> [i \in 1..Len(h[elem1].kids) |-> XVal(h, h[elem1].kids[i])],
     subAfter |-> [i \in 1..Len(h[elem1].kids) |-> XVal(hAfter, h[elem1].kids[i])]]

\* lines 67-76.  st is [h: the element heap, log: the iterations so far];
\* the outer loop reads child i of elem2 when it gets to it.
RECURSIVE MergeElements(_, _, _, _)
MergeChild(st, elem1, child2) ==
    LET m == FirstMatch(st.h, elem1, child2)
        done == IF m # 0
                THEN MergeElements(st, st.h[elem1].kids[m], child2, 1)
                ELSE [h |-> AppendChild(st.h, elem1, child2), log |-> st.log]
        into == IF m # 0 THEN st.h[elem1].kids[m] ELSE 0
    IN [h |-> done.h,
        log |-> Append(done.log, Observe(st.h, done.h, elem1, child2, into))]

MergeElements(st, elem1, elem2, i) ==
    IF i > Len(st.h[elem2].kids) THEN st
    ELSE MergeElements(MergeChild(st, elem1, st.h[elem2].kids[i]), elem1, elem2, i + 1)

\* lines 63-79: returns tree1, whose root is root1.
MergeXmlTrees(h, root1, root2) == MergeElements([h |-> h, log |-> <<>>], root1, root2, 1)

(***************************************************************************)
(* The inputs the merge engines are applied to.                            *)
(***************************************************************************)
SeqsUpTo(S, n) == UNION {[1..k -> S] : k \in 0..n}

Ints == {IntD(i) : i \in 1..MaxInt}
Atoms == Ints \cup {StrD(<<"[", "1", "]">>), BoolD(1)}

\* structured elements of a sequence
StructElems ==
    {ListD(<<IntD(1)>>),
     DictD(<<<<"a">>, <<"b">>>>, <<IntD(1), IntD(2)>>),
     DictD(<<<<"b">>, <<"a">>>>, <<IntD(2), IntD(1)>>),
     DictD(<<<<"a">>, <<"b">>>>, <<IntD(1), IntD(1)>>)}

Elems == Atoms \cup StructElems

ListPairs ==
    {p \in SeqsUpTo(Elems, MaxLen) \X SeqsUpTo(Elems, MaxLen) :
        Len(p[1]) + Len(p[2]) <= MaxLen + 1}

\* values of a map's keys
MapVals ==
    Ints \cup
    {StrD(<<"[", "1", "]">>),
     ListD(<<IntD(1)>>),
     ListD(<<IntD(2), IntD(2)>>),
     ListD(<<StrD(<<"[", "1", "]">>), ListD(<<IntD(1)>>)>>),
     DictD(<<<<"x">>>>, <<IntD(1)>>),
     DictD(<<<<"y">>>>, <<IntD(2)>>),
     DictD(<<<<"x">>>>, <<ListD(<<IntD(1)>>)>>),
     DictD(<<<<"x">>>>, <<ListD(<<IntD(2), IntD(2)>>)>>)}

KeySeqs == {<<>>, <<<<"a">>>>, <<<<"b">>>>, <<<<"a">>, <<"b">>>>, <<<<"b">>, <<"a">>>>}

Maps == UNION {{DictD(ks, vs) : vs \in [1..Len(ks) -> MapVals]} : ks \in KeySeqs}

MapPairs == {p \in Maps \X Maps : Len(p[1].keys) + Len(p[2].keys) <= 3}

\* pairs that are neither two maps nor two sequences
Mixed ==
    Atoms \cup
    {NoneD, DictD(<<>>, <<>>), DictD(<<<<"a">>>>, <<IntD(1)>>),
     ListD(<<>>), ListD(<<IntD(1), IntD(1)>>)}

MixedPairs == {p \in Mixed \X Mixed : ~(p[1].t = p[2].t /\ IsStructD(p[1]))}

DataPairs ==
    {<<ListD(p[1]), ListD(p[2])>> : p \in ListPairs} \cup MapPairs \cup MixedPairs

Leaf(tag) == Elem(tag, {}, <<>>)

XChildren ==
    {Leaf("a"), Leaf("b"),
     Elem("a", {<<"id", "1">>}, <<>>),
     Elem("a", {}, <<Leaf("x")>>),
     Elem("b", {}, <<Leaf("x")>>),
     Elem("b", {}, <<Leaf("y")>>),
     Elem("b", {}, <<Leaf("x"), Leaf("x")>>),
     Elem("b", {}, <<Elem("x", {}, <<Leaf("z")>>)>>)}

XmlPairs ==
    {p \in SeqsUpTo(XChildren, MaxKids) \X SeqsUpTo(XChildren, MaxKids) :
        Len(p[1]) + Len(p[2]) <= MaxKids + 1}

(***************************************************************************)
(* SpecMerge: the two merge engines applied to freshly parsed inputs.      *)
(***************************************************************************)
IdleData ==
    /\ heap = <<>> /\ a = NoneV /\ b = NoneV /\ ret = NoneV
    /\ h0 = <<>> /\ prev = NoneD

IdleXml == xheap = <<>> /\ tree1 = 0 /\ tree2 = 0 /\ xh0 = <<>> /\ xlog = <<>>

IdleFolders ==
    /\ srcFS = <<>> /\ dstFS = <<>> /\ dst0 = <<>> /\ walk = <<>>
    /\ roots = <<FALSE, FALSE>> /\ pc = "idle" /\ out = <<>> /\ called = {}

InitData ==
    \E p \in DataPairs :
        LET la == Alloc(<<>>, p[1])
            lb == Alloc(la.h, p[2])
        IN /\ heap = lb.h /\ a = la.r /\ b = lb.r /\ h0 = lb.h
           /\ ret = NoneV /\ prev = NoneD /\ phase = "loaded"
           /\ IdleXml /\ IdleFolders

InitXml ==
    \E p \in XmlPairs :
        LET l1 == XAlloc(<<>>, Elem("root", {}, p[1]))
            l2 == XAlloc(l1.h, Elem("root", {}, p[2]))
        IN /\ xheap = l2.h /\ tree1 = l1.r /\ tree2 = l2.r /\ xh0 = l2.h
           /\ xlog = <<>> /\ phase = "xloaded"
           /\ IdleData /\ IdleFolders

InitMerge == InitData \/ InitXml

\* merged = merge_data(destination, source)
Merge ==
    /\ phase = "loaded"
    /\ LET m == MergeData(heap, a, b)
       IN /\ heap' = m.h /\ ret' = m.r /\ prev' = Val(m.h, m.r)
    /\ phase' = "merged"
    /\ UNCHANGED <<a, b, h0>>
    /\ UNCHANGED xmlVars /\ UNCHANGED folderVars

\* merge_data(merged, source): the same source merged in once more
MergeAgain ==
    /\ phase = "merged"
    /\ LET m == MergeData(heap, ret, b)
       IN heap' = m.h /\ ret' = m.r
    /\ phase' = "merged2"
    /\ UNCHANGED <<a, b, h0, prev>>
    /\ UNCHANGED xmlVars /\ UNCHANGED folderVars

\* merge_xml_trees(tree1, tree2)
MergeXml ==
    /\ phase = "xloaded"
    /\ LET m == MergeXmlTrees(xheap, tree1, tree2)
       IN xheap' = m.h /\ xlog' = m.log
    /\ phase' = "xmerged"
    /\ UNCHANGED <<tree1, tree2, xh0>>
    /\ UNCHANGED <<heap, a, b, ret, h0, prev>> /\ UNCHANGED folderVars

NextMerge == Merge \/ MergeAgain \/ MergeXml

SpecMerge == InitMerge /\ [][NextMerge]_vars

(***************************************************************************)
(* Properties of the merge engines.                                        *)
(***************************************************************************)
D0 == Val(h0, a)          \* the destination document before the call
S0 == Val(h0, b)          \* the source document before the call
R == Val(heap, ret)       \* the document returned

KeySet(v) == {v.keys[i] : i \in 1..Len(v.keys)}
At(v, k) == v.items[CHOOSE i \in 1..Len(v.keys) : v.keys[i] = k]
MergeOf(h, x, y) == LET m == MergeData(h, x, y) IN Val(m.h, m.r)

\* C1: merging two maps gives a map whose keys are exactly the keys of
\* either; a key only in the destination keeps its value, a key only in the
\* source carries the source's value, a key in both carries the merge of the
\* two values.
C1_MapDeepMerge ==
    (phase = "merged" /\ D0.t = "dict" /\ S0.t = "dict") =>
        /\ R.t = "dict"
        /\ KeySet(R) = KeySet(D0) \cup KeySet(S0)
        /\ Cardinality(KeySet(R)) = Len(R.keys)
        /\ \A k \in KeySet(R) :
              At(R, k) = IF k \in KeySet(D0) /\ k \in KeySet(S0)
                         THEN MergeOf(h0, DictGet(h0, a, k), DictGet(h0, b, k))
                         ELSE IF k \in KeySet(D0) THEN At(D0, k)
                         ELSE At(S0, k)

\* {"a": {"x": 1}, "b": 1} merged with {"a": {"y": 2}}
C1_Witness ==
    /\ phase = "merged"
    /\ D0 = DictD(<<<<"a">>, <<"b">>>>, <<DictD(<<<<"x">>>>, <<IntD(1)>>), IntD(1)>>)
    /\ S0 = DictD(<<<<"a">>>>, <<DictD(<<<<"y">>>>, <<IntD(2)>>)>>)
    /\ R = DictD(<<<<"a">>, <<"b">>>>,
                 <<DictD(<<<<"x">>, <<"y">>>>, <<IntD(1), IntD(2)>>), IntD(1)>>)

\* C2: when the two arguments are neither two maps nor two sequences, the
\* call returns the source itself, unchanged.
C2_SourceWins ==
    (phase = "merged" /\ ~(D0.t = "dict" /\ S0.t = "dict")
                      /\ ~(D0.t = "list" /\ S0.t = "list")) =>
        ret = b /\ R = S0

\* a map destination against a scalar source
C2_Witness == phase = "merged" /\ D0.t = "dict" /\ D0.keys # <<>> /\ S0 = IntD(1) /\ R = IntD(1)

\* The equality the sequence rule is stated with: two scalars that compare
\* equal, or two structured values with the same key-sorted serialization.
ClaimedEqual(x, y) ==
    \/ ~IsStructD(x) /\ ~IsStructD(y) /\ PyEq(x, y)
    \/ IsStructD(x) /\ IsStructD(y) /\ JsonDumps(x) = JsonDumps(y)

RECURSIVE FirstOccurrences(_, _)
FirstOccurrences(vs, kept) ==
    IF vs = <<>> THEN kept
    ELSE IF \E i \in 1..Len(kept) : ClaimedEqual(kept[i], Head(vs))
         THEN FirstOccurrences(Tail(vs), kept)
         ELSE FirstOccurrences(Tail(vs), Append(kept, Head(vs)))

\* C3: merging two sequences gives the destination's elements followed by
\* the source's, each element dropped that equals an earlier one; a scalar
\* and a structured element are never equal.
C3_SequenceMerge ==
    (phase = "merged" /\ D0.t = "list" /\ S0.t = "list") =>
        R = ListD(FirstOccurrences(D0.items \o S0.items, <<>>))

HashableD(v) == IF IsStructD(v) THEN StrD(JsonDumps(v)) ELSE v

\* No sequence that is a value of the map, at any map depth, holds two
\* elements the sequence merge takes for duplicates.
RECURSIVE NoRepeats(_)
NoRepeats(v) ==
    CASE v.t = "list" ->
            \A i, j \in 1..Len(v.items) :
                i < j => ~PyEq(HashableD(v.items[i]), HashableD(v.items[j]))
      [] v.t = "dict" -> \A i \in 1..Len(v.items) : NoRepeats(v.items[i])
      [] OTHER -> TRUE

\* C4 as stated: for any two maps, merging the source in a second time
\* gives the first result again.
C4_Idempotent ==
    (phase = "merged2" /\ D0.t = "dict" /\ S0.t = "dict") => R = prev

\* C4 as amended: for two maps of which the source holds no sequence with
\* repeated elements, merging the source in a second time gives the first
\* result again.
C4_IdempotentNoRepeats ==
    (phase = "merged2" /\ D0.t = "dict" /\ S0.t = "dict" /\ NoRepeats(S0)) =>
        R = prev

\* {"a": [2, 2]} merged with {"a": [1]}, twice
C4_Witness ==
    /\ phase = "merged2"
    /\ D0 = DictD(<<<<"a">>>>, <<ListD(<<IntD(2), IntD(2)>>)>>)
    /\ S0 = DictD(<<<<"a">>>>, <<ListD(<<IntD(1)>>)>>)
    /\ NoRepeats(S0)
    /\ prev = DictD(<<<<"a">>>>, <<ListD(<<IntD(2), IntD(1)>>)>>)
    /\ R = prev

XD0 == XVal(xh0, tree1)   \* the destination tree before the call
XS0 == XVal(xh0, tree2)   \* the source tree before the call

MatchIn(kids, c) ==
    LET hits == {i \in 1..Len(kids) : kids[i].tag = c.tag /\ kids[i].attrib = c.attrib}
    IN IF hits = {} THEN 0 ELSE CHOOSE i \in hits : \A j \in hits : i <= j

\* The tree the append rule describes: each source child with no matching
\* child in the destination element is appended as it is, the others are
\* merged into their first match.
RECURSIVE ClaimedTree(_, _)
RECURSIVE ClaimedKids(_, _, _)
ClaimedKids(orig, acc, cs) ==
    IF cs = <<>> THEN acc
    ELSE LET m == MatchIn(orig, Head(cs))
         IN IF m = 0 THEN ClaimedKids(orig, Append(acc, Head(cs)), Tail(cs))
            ELSE ClaimedKids(orig, [acc EXCEPT ![m] = ClaimedTree(acc[m], Head(cs))],
                             Tail(cs))

ClaimedTree(d, s) == Elem(d.tag, d.attrib, ClaimedKids(d.kids, d.kids, s.kids))

\* C5: the merged tree is the destination tree plus exactly the source
\* children that have no matching child in the corresponding destination
\* element, each with the subtree it had in the source.
C5_AppendUnmatched ==
    phase = "xmerged" => XVal(xheap, tree1) = ClaimedTree(XD0, XS0)

LogIndex == 1..Len(xlog)
Hits(e) == {i \in 1..Len(e.same) : e.same[i]}
First(e) == CHOOSE i \in Hits(e) : \A j \in Hits(e) : i <= j

\* C6: when a source child has matching children in the destination
\* element, the merge recurses into the first of them only, appends nothing
\* to the destination element and leaves its children in their order.
C6_FirstMatch ==
    phase = "xmerged" =>
        \A n \in LogIndex :
            LET e == xlog[n]
            IN Hits(e) # {} =>
                  /\ e.into = e.kidsBefore[First(e)]
                  /\ e.kidsAfter = e.kidsBefore
                  /\ \A j \in 1..Len(e.kidsBefore) :
                        j # First(e) => e.subAfter[j] = e.subBefore[j]

\* two matching destination children, the first of which the merge changed
C6_Witness ==
    /\ phase = "xmerged"
    /\ \E n \in LogIndex :
          /\ Cardinality(Hits(xlog[n])) >= 2
          /\ xlog[n].subAfter[First(xlog[n])] # xlog[n].subBefore[First(xlog[n])]

\* C7: after either merge returns, the source is what it was before.
C7_SourceUnchanged ==
    /\ phase = "merged" => Val(heap, b) = S0
    /\ phase = "xmerged" => XVal(xheap, tree2) = XS0

(***************************************************************************)
(* Files.  A file name is a stem and a suffix and stands for a path        *)
(* relative to the folder roots (line 112 makes the directory of every     *)
(* such path exist under folder_b before its files are visited).  The      *)
(* content of a file is what the parser of its format makes of its text:   *)
(*   "wellformed"  a document (doc, or xml for an .xml file); a wellformed *)
(*                 .properties file is a map from section to map           *)
(*   "malformed"   text the parser rejects; for .properties, lines under no *)
(*                 section header                                          *)
(*   "empty"       no bytes                                                *)
(*   "opaque"      the text of a file of another format                    *)
(*   "absent"      there is no such file                                   *)
(***************************************************************************)
NoTree == Elem("", {}, <<>>)
Content(kind, doc, xml) == [kind |-> kind, doc |-> doc, xml |-> xml]
Absent == Content("absent", NoneD, NoTree)
Empty == Content("empty", NoneD, NoTree)
Malformed == Content("malformed", NoneD, NoTree)
Opaque(i) == Content("opaque", IntD(i), NoTree)
DocFile(v) == Content("wellformed", v, NoTree)
XmlFile(e) == Content("wellformed", NoneD, e)

File(stem, suffix) == [stem |-> stem, suffix |-> suffix]

\* suffix.lower()
Lower(suffix) ==
    CASE suffix = ".YML" -> ".yml"
      [] suffix = ".JSON" -> ".json"
      [] suffix = ".XML" -> ".xml"
      [] OTHER -> suffix

\* str.lower() on the characters of a properties key (ConfigParser's
\* optionxform)
LowerChar(c) == IF c = "X" THEN "x" ELSE IF c = "Y" THEN "y" ELSE c
LowerKey(cs) == [i \in 1..Len(cs) |-> LowerChar(cs[i])]

\* What a load_file call does: raise, or return a value (None, a document
\* or an element tree).
Raised == [raised |-> TRUE, none |-> FALSE, doc |-> NoneD, xml |-> NoTree]
Loaded(v) == [raised |-> FALSE, none |-> v.t = "null", doc |-> v, xml |-> NoTree]
LoadedTree(e) == [raised |-> FALSE, none |-> FALSE, doc |-> NoneD, xml |-> e]

\* line 20: the options of every section in one dict, a later one replacing
\* an earlier one of the same name.
RECURSIVE FlattenItems(_, _, _)
FlattenItems(ks, vs, section) ==
    IF section.keys = <<>> THEN [keys |-> ks, items |-> vs]
    ELSE LET k == LowerKey(Head(section.keys))
             v == Head(section.items)
             rest == [section EXCEPT !.keys = Tail(@), !.items = Tail(@)]
         IN IF \E i \in 1..Len(ks) : ks[i] = k
            THEN FlattenItems(ks, [vs EXCEPT ![CHOOSE i \in 1..Len(ks) : ks[i] = k] = v],
                              rest)
            ELSE FlattenItems(Append(ks, k), Append(vs, v), rest)

RECURSIVE FlattenSections(_, _, _)
FlattenSections(ks, vs, sections) ==
    IF sections = <<>> THEN DictD(ks, vs)
    ELSE LET f == FlattenItems(ks, vs, Head(sections))
         IN FlattenSections(f.keys, f.items, Tail(sections))

\* lines 10-23
LoadFile(file, content) ==
    LET suffix == Lower(file.suffix)
    IN CASE suffix = ".json" ->
                IF content.kind = "wellformed" THEN Loaded(content.doc) ELSE Raised
         [] suffix \in {".yaml", ".yml"} ->
                IF content.kind = "wellformed" THEN Loaded(content.doc)
                ELSE IF content.kind = "empty" THEN Loaded(NoneD)
                ELSE Raised
         [] suffix = ".properties" ->
                IF content.kind = "wellformed"
                THEN Loaded(FlattenSections(<<>>, <<>>, content.doc.items))
                ELSE IF content.kind = "empty" THEN Loaded(DictD(<<>>, <<>>))
                ELSE Raised
         [] suffix = ".xml" ->
                IF content.kind = "wellformed" THEN LoadedTree(content.xml) ELSE Raised
         [] OTHER -> Loaded(NoneD)

\* lines 25-40: what the file holds afterwards, and whether the call raised.
\* open(filepath, 'w') empties the file before anything is serialized;
\* parser.add_section('DEFAULT') raises ValueError.
SaveFile(file, data) ==
    LET suffix == Lower(file.suffix)
    IN CASE suffix \in {".json", ".yaml", ".yml"} ->
                [raised |-> FALSE, content |-> DocFile(data.doc)]
         [] suffix = ".properties" -> [raised |-> TRUE, content |-> Empty]
         [] suffix = ".xml" -> [raised |-> FALSE, content |-> XmlFile(data.xml)]
         [] OTHER -> [raised |-> FALSE, content |-> Empty]

\* lines 90-96 on freshly loaded values: the merged value, or "unsupported".
MergeLoaded(file, dst_data, src_data) ==
    LET suffix == Lower(file.suffix)
    IN CASE suffix \in {".json", ".yaml", ".yml", ".properties"} ->
                LET ld == Alloc(<<>>, dst_data.doc)
                    ls == Alloc(ld.h, src_data.doc)
                    m == MergeData(ls.h, ld.r, ls.r)
                IN [supported |-> TRUE, doc |-> Val(m.h, m.r), xml |-> NoTree]
         [] suffix = ".xml" ->
                LET l1 == XAlloc(<<>>, dst_data.xml)
                    l2 == XAlloc(l1.h, src_data.xml)
                    m == MergeXmlTrees(l2.h, l1.r, l2.r)
                IN [supported |-> TRUE, doc |-> NoneD, xml |-> XVal(m.h, l1.r)]
         [] OTHER -> [supported |-> FALSE, doc |-> NoneD, xml |-> NoTree]

Line(msg, file) == [msg |-> msg, file |-> file]

\* lines 81-99: what a merge_files call leaves behind: the destination
\* file's content, the lines printed, and whether an exception escaped.
MergeFiles(file, src, dst) ==
    LET src_data == LoadFile(file, src)
        dst_data == LoadFile(file, dst)
        merged == MergeLoaded(file, dst_data, src_data)
        saved == SaveFile(file, merged)
    IN IF src_data.raised \/ dst_data.raised
       THEN [raised |-> TRUE, content |-> dst, lines |-> <<>>]
       ELSE IF src_data.none \/ dst_data.none
       THEN [raised |-> FALSE, content |-> dst, lines |-> <<Line("Warning: Cannot read", file)>>]
       ELSE IF ~merged.supported
       THEN [raised |-> FALSE, content |-> dst,
             lines |-> <<Line("Skipped unsupported merge", file)>>]
       ELSE IF saved.raised
       THEN [raised |-> TRUE, content |-> saved.content, lines |-> <<>>]
       ELSE [raised |-> FALSE, content |-> saved.content, lines |-> <<Line("Merged", file)>>]

\* line 122
Recognized == {".json", ".yaml", ".yml", ".properties", ".xml"}

(***************************************************************************)
(* The folders a run starts from.                                          *)
(***************************************************************************)
FileNames ==
    {File("a", ".json"), File("b", ".yaml"), File("c", ".YML"),
     File("d", ".properties"), File("e", ".xml"), File("f", ".txt")}

DocX1 == DictD(<<<<"x">>>>, <<IntD(1)>>)
DocX2Y3 == DictD(<<<<"x">>, <<"y">>>>, <<IntD(2), IntD(3)>>)
Ini(k, v) == DictD(<<<<"s">>>>, <<DictD(<<k>>, <<StrD(v)>>)>>)

SrcContents(file) ==
    CASE file.suffix = ".json" -> {DocFile(DocX2Y3), Malformed}
      [] file.suffix = ".yaml" -> {DocFile(DocX2Y3), Empty}
      [] file.suffix = ".YML" -> {DocFile(ListD(<<IntD(1), IntD(2)>>))}
      [] file.suffix = ".properties" -> {DocFile(Ini(<<"X">>, <<"2">>)), Malformed}
      [] file.suffix = ".xml" ->
            {XmlFile(Elem("root", {}, <<Elem("a", {}, <<Leaf("x")>>)>>)), Malformed}
      [] OTHER -> {Opaque(1)}

DstContents(file) ==
    {Absent} \cup
    CASE file.suffix = ".json" -> {DocFile(DocX1), Malformed}
      [] file.suffix = ".yaml" -> {DocFile(DocX1)}
      [] file.suffix = ".YML" -> {DocFile(ListD(<<IntD(2), IntD(3)>>))}
      [] file.suffix = ".properties" -> {DocFile(Ini(<<"x">>, <<"1">>))}
      [] file.suffix = ".xml" -> {XmlFile(Elem("root", {}, <<Leaf("a")>>))}
      [] OTHER -> {Opaque(2)}

Walks ==
    {w \in SeqsUpTo(FileNames, MaxFiles) :
        \A i, j \in 1..Len(w) : i < j => w[i] # w[j]}

Range(w) == {w[i] : i \in 1..Len(w)}

SrcFolders(files) ==
    {fs \in [files -> UNION {SrcContents(f) : f \in files}] :
        \A f \in files : fs[f] \in SrcContents(f)}

DstFolders(files) ==
    {fs \in [files -> UNION {DstContents(f) : f \in files}] :
        \A f \in files : fs[f] \in DstContents(f)}

(***************************************************************************)
(* Spec: a run of merge_folders.                                           *)
(***************************************************************************)
IdleMerge == IdleData /\ IdleXml /\ phase = "idle"

Init ==
    /\ IdleMerge
    /\ pc = "start" /\ out = <<>> /\ called = {}
    /\ \/ /\ roots = <<TRUE, TRUE>>
          /\ \E w \in Walks :
                /\ walk = w
                /\ srcFS \in SrcFolders(Range(w))
                /\ dstFS \in DstFolders(Range(w))
       \/ /\ roots \in {<<TRUE, FALSE>>, <<FALSE, TRUE>>, <<FALSE, FALSE>>}
          /\ walk = <<>>
          /\ srcFS = [f \in {} |-> Absent]
          /\ dstFS = [f \in {} |-> Absent]
    /\ dst0 = dstFS

NoFile == File("", "")

\* lines 102-107
Start ==
    /\ pc = "start"
    /\ IF ~roots[1] \/ ~roots[2]
       THEN /\ out' = Append(out, Line("One or both folders do not exist.", NoFile))
            /\ pc' = "done"
       ELSE /\ pc' = "walking"
            /\ out' = out
    /\ UNCHANGED <<srcFS, dstFS, dst0, walk, roots, called>>
    /\ UNCHANGED dataVars /\ UNCHANGED phase /\ UNCHANGED xmlVars

\* lines 119-121
Copy ==
    /\ pc = "walking" /\ walk # <<>>
    /\ LET file == Head(walk)
       IN /\ dstFS[file].kind = "absent"
          /\ dstFS' = [dstFS EXCEPT ![file] = srcFS[file]]
          /\ out' = Append(out, Line("Copied", file))
    /\ walk' = Tail(walk)
    /\ UNCHANGED <<srcFS, dst0, roots, pc, called>>
    /\ UNCHANGED dataVars /\ UNCHANGED phase /\ UNCHANGED xmlVars

\* lines 122-123: an exception that escapes merge_files ends the run.
MergeFile ==
    /\ pc = "walking" /\ walk # <<>>
    /\ LET file == Head(walk)
           done == MergeFiles(file, srcFS[file], dstFS[file])
       IN /\ dstFS[file].kind # "absent"
          /\ Lower(file.suffix) \in Recognized
          /\ dstFS' = [dstFS EXCEPT ![file] = done.content]
          /\ out' = out \o done.lines
          /\ pc' = IF done.raised THEN "crashed" ELSE pc
          /\ called' = called \cup {file}
    /\ walk' = Tail(walk)
    /\ UNCHANGED <<srcFS, dst0, roots>>
    /\ UNCHANGED dataVars /\ UNCHANGED phase /\ UNCHANGED xmlVars

\* lines 124-125
Skip ==
    /\ pc = "walking" /\ walk # <<>>
    /\ LET file == Head(walk)
       IN /\ dstFS[file].kind # "absent"
          /\ Lower(file.suffix) \notin Recognized
          /\ out' = Append(out, Line("Skipped (already exists)", file))
    /\ walk' = Tail(walk)
    /\ UNCHANGED <<srcFS, dstFS, dst0, roots, pc, called>>
    /\ UNCHANGED dataVars /\ UNCHANGED phase /\ UNCHANGED xmlVars

\* line 109: os.walk has nothing more to yield.
Finish ==
    /\ pc = "walking" /\ walk = <<>>
    /\ pc' = "done"
    /\ UNCHANGED <<srcFS, dstFS, dst0, walk, roots, out, called>>
    /\ UNCHANGED dataVars /\ UNCHANGED phase /\ UNCHANGED xmlVars

Next == Start \/ Copy \/ MergeFile \/ Skip \/ Finish

Spec == Init /\ [][Next]_vars

(***************************************************************************)
(* Properties of a run.                                                    *)
(***************************************************************************)
BothRoots == roots = <<TRUE, TRUE>>
Processed == {f \in DOMAIN srcFS : pc # "start" /\ f \notin Range(walk)}
LinesAbout(f) == {i \in 1..Len(out) : out[i].file = f}
MergedLine(f) == \E i \in 1..Len(out) : out[i] = Line("Merged", f)

\* every file on either side is one its loader reads as a document or tree
AllReadable ==
    \A f \in DOMAIN srcFS :
        /\ srcFS[f].kind \in {"wellformed", "opaque"}
        /\ dst0[f].kind \in {"absent", "wellformed", "opaque"}

\* the destination file now reads as the merge of what the two files held
HoldsMerge(f) ==
    LET got == LoadFile(f, dstFS[f])
        want == MergeLoaded(f, LoadFile(f, dst0[f]), LoadFile(f, srcFS[f]))
    IN ~got.raised /\ got.doc = want.doc /\ got.xml = want.xml

\* C8: with both roots present, every file under the source root gets
\* exactly one action: copied when the destination file is absent, the
\* destination rewritten with the merge when it is present and the
\* extension is recognized, left alone when the extension is not.
C8_Dispatch ==
    (BothRoots /\ AllReadable) =>
        /\ \A f \in Processed :
              /\ Cardinality(LinesAbout(f)) = 1
              /\ IF dst0[f].kind = "absent" THEN dstFS[f] = srcFS[f]
                 ELSE IF Lower(f.suffix) \in Recognized THEN HoldsMerge(f)
                 ELSE dstFS[f] = dst0[f]
        /\ pc \in {"done", "crashed"} => walk = <<>>

\* C9: a file pair that cannot be loaded or merged is given up with a
\* diagnostic naming the file, and the run goes on to the remaining files:
\* it never aborts.
C9_FailuresDoNotAbort ==
    /\ pc # "crashed"
    /\ \A f \in called : ~MergedLine(f) => LinesAbout(f) # {}
    /\ (BothRoots /\ pc = "done") => walk = <<>>

\* C10: a destination file whose merge was not written holds what it held
\* before; a destination file changes only to a complete merge result.
C10_DestinationUnchanged ==
    \A f \in called :
        /\ ~MergedLine(f) => dstFS[f] = dst0[f]
        /\ dstFS[f] # dst0[f] => dstFS[f].kind = "wellformed"

====
